---- MODULE Spec2Model ----
(***************************************************************************)
(* Model of the caching fetch client of ransomwarelive_terminal.py:        *)
(* the sqlite cache table (init_cache, get_cached, set_cache) and the      *)
(* retry loop of fetch_endpoint.                                           *)
(*                                                                         *)
(* The wall clock time.time() is a float; it is modelled as an integer     *)
(* number of ticks, TicksPerSec ticks to the second, so that the           *)
(* truncation int(time.time()) of set_cache is visible.                    *)
(***************************************************************************)
EXTENDS Integers, Sequences, FiniteSets, TLC

\* ------------------------------------------------------------------------
\* Configuration (module level constants of the script)
\* ------------------------------------------------------------------------
BASE_URL == "https://api.ransomware.live/v2"
CACHE_TTL == 3600
MAX_RETRIES == 5
BACKOFF_INITIAL == 1
BACKOFF_MAX == 60

\* ------------------------------------------------------------------------
\* Bounds of the model
\* ------------------------------------------------------------------------
\* resolution of the modelled clock: ticks per second
TicksPerSec == 2

\* the request paths the callers pass to fetch_endpoint
Paths == {"/groups", "/victims/2024/1"}

Min(a, b) == IF a < b THEN a ELSE b

\* ------------------------------------------------------------------------
\* JSON values and their serialisation
\* ------------------------------------------------------------------------
\* Python None, which is also what json.loads("null") yields
None == [type |-> "null", items |-> <<>>]
\* {"a": 1}
ObjA == [type |-> "object", items |-> <<1>>]
\* [1, 2]
Arr12 == [type |-> "array", items |-> <<1, 2>>]

JSONValues == {None, ObjA, Arr12}

\* json.dumps with the default separators
json_dumps(data) ==
    CASE data.type = "null" -> "null"
      [] data.type = "object" -> "{\"a\": 1}"
      [] data.type = "array" -> "[1, 2]"

\* texts that json.loads rejects with JSONDecodeError
BadTexts == {"{\"a\": ", "<html>429</html>"}

\* json.loads: [ok |-> FALSE] stands for the JSONDecodeError it raises.
\* The decoder accepts any whitespace between tokens, so the compact
\* form a server sends decodes to the same value as the form json.dumps
\* writes.
json_loads(text) ==
    CASE text = "null" -> [ok |-> TRUE, value |-> None]
      [] text \in {"{\"a\": 1}", "{\"a\":1}"} -> [ok |-> TRUE, value |-> ObjA]
      [] text \in {"[1, 2]", "[1,2]"} -> [ok |-> TRUE, value |-> Arr12]
      [] OTHER -> [ok |-> FALSE, value |-> None]

\* ------------------------------------------------------------------------
\* The cache table: a set of rows [key, response, timestamp]
\* ------------------------------------------------------------------------
Keys == {BASE_URL \o p : p \in Paths}

\* the clock reading of the first call, in seconds and in ticks
StartSec == CACHE_TTL
Start == StartSec * TicksPerSec

\* the age compared in ticks with the TTL in seconds
FreshWrongUnit(ts, t) == t - ts * TicksPerSec < CACHE_TTL

\* time.time() - ts < CACHE_TTL, with the clock t in ticks and ts in seconds
Fresh(ts, t) == t - ts * TicksPerSec < CACHE_TTL * TicksPerSec

\* SELECT response, timestamp FROM cache WHERE key = ?
Select(st, key) == {r \in st : r.key = key}

\* the row served whatever its age
get_cachedNoTTL(st, key, t) ==
    IF Select(st, key) = {}
    THEN [raised |-> FALSE, value |-> None]
    ELSE LET d == json_loads((CHOOSE r \in Select(st, key) : TRUE).response)
         IN  [raised |-> ~d.ok, value |-> d.value]

\* get_cached: [raised |-> TRUE] stands for the JSONDecodeError of
\* json.loads, which get_cached does not catch
get_cached(st, key, t) ==
    IF Select(st, key) = {}
    THEN [raised |-> FALSE, value |-> None]
    ELSE LET row == CHOOSE r \in Select(st, key) : TRUE
         IN  IF Fresh(row.timestamp, t)
             THEN LET d == json_loads(row.response)
                  IN  [raised |-> ~d.ok, value |-> d.value]
             ELSE [raised |-> FALSE, value |-> None]

\* INSERT OR IGNORE: an existing row is kept as it is
set_cacheInsertOnly(st, key, data, t) ==
    IF Select(st, key) = {}
    THEN st \cup {[key |-> key, response |-> json_dumps(data),
                   timestamp |-> t \div TicksPerSec]}
    ELSE st

\* an UPDATE without its WHERE clause: every row takes the new value
set_cacheEveryRow(st, key, data, t) ==
    IF Select(st, key) = {}
    THEN st \cup {[key |-> key, response |-> json_dumps(data),
                   timestamp |-> t \div TicksPerSec]}
    ELSE {[r EXCEPT !.response = json_dumps(data),
                    !.timestamp = t \div TicksPerSec] : r \in st}

\* a plain INSERT into a table whose key column is not unique
set_cacheDuplicate(st, key, data, t) ==
    st \cup {[key |-> key, response |-> json_dumps(data),
              timestamp |-> t \div TicksPerSec]}

\* set_cache: INSERT ... ON CONFLICT(key) DO UPDATE, stamped int(time.time())
set_cache(st, key, data, t) ==
    LET resp_text == json_dumps(data)
        ts == t \div TicksPerSec
    IN  IF Select(st, key) = {}
        THEN st \cup {[key |-> key, response |-> resp_text, timestamp |-> ts]}
        ELSE {IF r.key = key
              THEN [r EXCEPT !.response = resp_text, !.timestamp = ts]
              ELSE r : r \in st}

\* ------------------------------------------------------------------------
\* The transport: what requests.get can produce
\* ------------------------------------------------------------------------
\* U+00B2 SUPERSCRIPT TWO: str.isdigit() is True for it, int() rejects it
SuperscriptTwo == "<U+00B2>"

RetryAfterValues == {"3", "soon", "", SuperscriptTwo}

\* str.isdigit()
isdigit(s) == s \in {"3", SuperscriptTwo}

\* int(s) for a string that passed isdigit: ValueError for the superscript
int(s) ==
    IF s = "3" THEN [ok |-> TRUE, value |-> 3] ELSE [ok |-> FALSE, value |-> 0]

HeaderSets == {{}} \cup {{<<"Retry-After", v>>} : v \in RetryAfterValues}

\* resp.headers.get(name)
HeadersGet(headers, name) ==
    IF \E h \in headers : h[1] = name
    THEN [present |-> TRUE, value |-> (CHOOSE h \in headers : h[1] = name)[2]]
    ELSE [present |-> FALSE, value |-> ""]

Bodies == {"null", "{\"a\":1}", "[1,2]", "<html>429</html>"}

\* exc: requests.get raised a RequestException instead of returning
Failure == [exc |-> TRUE, status_code |-> 0, text |-> "", headers |-> {}]
Response(code, body, hs) ==
    [exc |-> FALSE, status_code |-> code, text |-> body, headers |-> hs]

\* 429 responses whose Retry-After header is a number the code accepts
HintedResponses ==
    {Response(429, "", {<<"Retry-After", v>>}) :
        v \in {x \in RetryAfterValues : isdigit(x) /\ int(x).ok}}

\* every other outcome of requests.get
PlainResponses ==
    ({Failure}
     \cup {Response(200, b, {}) : b \in Bodies}
     \cup {Response(429, "", h) : h \in HeaderSets}
     \cup {Response(c, "", {}) : c \in {404, 500}})
    \ HintedResponses

Responses == PlainResponses \cup HintedResponses

\* ------------------------------------------------------------------------
\* State
\* ------------------------------------------------------------------------
VARIABLES
    store,      \* rows of the cache table
    now,        \* time.time(), in ticks
    pc,         \* "idle", "request" (inside the for loop) or "done"
    path,       \* argument of the running or last call
    attempt,    \* loop variable of fetch_endpoint
    backoff,    \* local variable of fetch_endpoint
    outcome,    \* "none", "returned" or "raised"
    result,     \* the value returned when outcome = "returned"
    requests,   \* requests.get calls made by the running or last call
    sleeps,     \* arguments of the time.sleep calls of that call, in order
    statuses,   \* transport outcomes of that call, in order (0: exception)
    store0,     \* the table when that call started
    now0,       \* the clock when that call started
    lastOK,     \* per path: the latest call that ended on a 200 response
    prior       \* lastOK of the path of the running call when it started

vars == <<store, now, pc, path, attempt, backoff, outcome, result, requests,
          sleeps, statuses, store0, now0, lastOK, prior>>

\* rows that may be in the file left by an earlier run of the program
InitStamps == {StartSec - CACHE_TTL, StartSec - CACHE_TTL + 1}
InitTexts == {"null", "[1, 2]", "{\"a\": "}
InitRows(k) ==
    {[key |-> k, response |-> x, timestamp |-> ts] :
        x \in InitTexts, ts \in InitStamps}
\* the file holds at most one such row when the program starts
InitStores ==
    {{}} \cup {{r} : r \in UNION {InitRows(k) : k \in Keys}}

\* the clock readings at which the operator's next menu choice reaches
\* fetch_endpoint, as offsets from Start
CallOffsets ==
    {0, 1,
     TicksPerSec * (CACHE_TTL - 1), TicksPerSec * (CACHE_TTL - 1) + 1,
     TicksPerSec * CACHE_TTL,
     TicksPerSec * (CACHE_TTL + 1), TicksPerSec * (CACHE_TTL + 1) + 1}
CallTimes == {Start + d : d \in CallOffsets}

NoCall == [seen |-> FALSE, data |-> None, at |-> 0]

Init ==
    /\ store \in InitStores
    /\ now = Start
    /\ pc = "idle"
    /\ path = CHOOSE p \in Paths : TRUE
    /\ attempt = 0
    /\ backoff = 0
    /\ outcome = "none"
    /\ result = None
    /\ requests = 0
    /\ sleeps = <<>>
    /\ statuses = <<>>
    /\ store0 = store
    /\ now0 = now
    /\ lastOK = [p \in Paths |-> NoCall]
    /\ prior = NoCall

\* ------------------------------------------------------------------------
\* fetch_endpoint
\* ------------------------------------------------------------------------
\* "return v" and an uncaught exception, as the end of the running call
Return(v) ==
    /\ pc' = "done"
    /\ outcome' = "returned"
    /\ result' = v

Raise ==
    /\ pc' = "done"
    /\ outcome' = "raised"
    /\ result' = None

\* the backoff kept across calls, as a module level variable would be
FirstBackoffCarried(previous) ==
    IF previous = 0 THEN BACKOFF_INITIAL ELSE previous

\* backoff = BACKOFF_INITIAL (line 74), whatever the local variable of the
\* call before was left at
FirstBackoff(previous) == BACKOFF_INITIAL

\* fetch_endpoint(p) entered at clock reading t: lines 69-74, the cache
\* lookup and, on a miss, the initialisation of the retry loop
Call(p, t) ==
    /\ pc \in {"idle", "done"}
    /\ t >= now
    /\ now' = t
    /\ path' = p
    /\ store0' = store
    /\ now0' = t
    /\ prior' = lastOK[p]
    /\ requests' = 0
    /\ sleeps' = <<>>
    /\ statuses' = <<>>
    /\ LET key == BASE_URL \o p
           cached == get_cached(store, key, t)
       IN  IF cached.raised
           THEN Raise /\ UNCHANGED <<attempt, backoff>>
           ELSE IF cached.value # None
                THEN Return(cached.value) /\ UNCHANGED <<attempt, backoff>>
                ELSE /\ pc' = "request"
                     /\ outcome' = "none"
                     /\ result' = None
                     /\ attempt' = 1
                     /\ backoff' = FirstBackoff(backoff)
    /\ UNCHANGED <<store, lastOK>>

\* the range taken one too far
InRangeOffByOne(a) == 1 <= a /\ a <= MAX_RETRIES + 1

\* for attempt in range(1, MAX_RETRIES + 1): does the loop body run for a
InRange(a) == 1 <= a /\ a <= MAX_RETRIES

\* a 404 answered like a 429
BranchRetry404(resp) ==
    IF resp.exc THEN "except"
    ELSE IF resp.status_code = 200 THEN "ok"
    ELSE IF resp.status_code \in {429, 404} THEN "rate_limit"
    ELSE "fail"

\* a RequestException swallowed and the request repeated after the backoff
BranchRetryFailure(resp) ==
    IF resp.exc THEN "rate_limit"
    ELSE IF resp.status_code = 200 THEN "ok"
    ELSE IF resp.status_code = 429 THEN "rate_limit"
    ELSE "fail"

\* every status from 429 up answered like a 429
BranchRetryServerError(resp) ==
    IF resp.exc THEN "except"
    ELSE IF resp.status_code = 200 THEN "ok"
    ELSE IF resp.status_code >= 429 THEN "rate_limit"
    ELSE "fail"

\* the branch of the loop body that handles resp: the except clause, the
\* 200 branch, the 429 branch, or the final "return None" (404 and every
\* other status differ in the message printed only)
Branch(resp) ==
    IF resp.exc THEN "except"
    ELSE IF resp.status_code = 200 THEN "ok"
    ELSE IF resp.status_code = 429 THEN "rate_limit"
    ELSE "fail"

\* the header read but the computed backoff slept all the same
WaitIgnoresHint(hinted, hint, b) == b

\* wait = int(ra) if ra and ra.isdigit() else backoff (line 89), for a
\* header int() accepts
Wait(hinted, hint, b) == IF hinted THEN hint ELSE b

\* the backoff grown by one second instead of doubled
NextBackoffLinear(b) == Min(b + 1, BACKOFF_MAX)

\* backoff = min(backoff * 2, BACKOFF_MAX) (line 92)
NextBackoff(b) == Min(b * 2, BACKOFF_MAX)

\* the end of the loop tested one attempt too late
LoopOverOffByOne(a) == a > MAX_RETRIES + 1

\* the for loop is over once the range is used up
LoopOver(a) == a > MAX_RETRIES

\* one iteration of the for loop (lines 75-99) in which requests.get
\* produces resp.  The time the request itself takes is not modelled.
Attempt(resp) ==
    /\ pc = "request"
    /\ InRange(attempt)
    /\ requests' = requests + 1
    /\ statuses' = Append(statuses, resp.status_code)
    /\ UNCHANGED <<path, store0, now0, prior>>
    /\ LET key == BASE_URL \o path
           branch == Branch(resp)
       IN  IF branch = "except"
           THEN /\ Return(None)
                /\ UNCHANGED <<store, now, attempt, backoff, sleeps, lastOK>>
           ELSE IF branch = "ok"
           THEN LET data == json_loads(resp.text)
                IN  IF ~data.ok
                    THEN \* resp.json() raises, outside the try block
                         /\ Raise
                         /\ UNCHANGED <<store, now, attempt, backoff, sleeps,
                                        lastOK>>
                    ELSE /\ store' = set_cache(store, key, data.value, now)
                         /\ Return(data.value)
                         /\ lastOK' = [lastOK EXCEPT ![path] =
                                [seen |-> TRUE, data |-> data.value, at |-> now]]
                         /\ UNCHANGED <<now, attempt, backoff, sleeps>>
           ELSE IF branch = "rate_limit"
           THEN LET ra == HeadersGet(resp.headers, "Retry-After")
                    hinted == ra.present /\ ra.value # "" /\ isdigit(ra.value)
                IN  IF hinted /\ ~int(ra.value).ok
                    THEN \* int(ra) raises ValueError
                         /\ Raise
                         /\ UNCHANGED <<store, now, attempt, backoff, sleeps,
                                        lastOK>>
                    ELSE LET wait == Wait(hinted, int(ra.value).value,
                                          backoff)
                         IN  /\ sleeps' = Append(sleeps, wait)
                             /\ now' = now + wait * TicksPerSec
                             /\ backoff' = NextBackoff(backoff)
                             /\ attempt' = attempt + 1
                             /\ UNCHANGED <<store, pc, outcome, result, lastOK>>
           ELSE /\ Return(None)
                /\ UNCHANGED <<store, now, attempt, backoff, sleeps, lastOK>>

\* the for loop ran out of attempts: lines 101-102
MaxRetriesExceeded ==
    /\ pc = "request"
    /\ LoopOver(attempt)
    /\ Return(None)
    /\ UNCHANGED <<store, now, path, attempt, backoff, requests, sleeps,
                   statuses, store0, now0, lastOK, prior>>

Next ==
    \/ \E p \in Paths, t \in CallTimes : Call(p, t)
    \/ \E resp \in PlainResponses : Attempt(resp)
    \/ MaxRetriesExceeded

Spec == Init /\ [][Next]_vars

\* A single call from the state the program starts in, against a server
\* that may also send numeric Retry-After hints
NextHint ==
    \/ \E p \in Paths : pc = "idle" /\ Call(p, Start)
    \/ \E resp \in Responses : Attempt(resp)
    \/ MaxRetriesExceeded

SpecHint == Init /\ [][NextHint]_vars

\* fetch_endpoint runs on one thread without cancellation: a call that has
\* entered the loop goes on as long as each requests.get (timeout=10) and
\* each time.sleep comes back
SpecLive ==
    /\ SpecHint
    /\ WF_vars(\E resp \in Responses : Attempt(resp))
    /\ WF_vars(MaxRetriesExceeded)

TypeOK ==
    /\ pc \in {"idle", "request", "done"}
    /\ outcome \in {"none", "returned", "raised"}
    /\ result \in JSONValues
    /\ path \in Paths
    /\ attempt \in 0..(MAX_RETRIES + 1)
    /\ \A r \in store : r.key \in Keys

\* ------------------------------------------------------------------------
\* Properties
\* ------------------------------------------------------------------------
\* the key of the running or last call, and the rows it had at the start
key0 == BASE_URL \o path
rows0 == Select(store0, key0)
Last(seq) == seq[Len(seq)]

\* C1: a call that finds a row for its key with now - timestamp < TTL
\* returns that row's payload without any transport call or sleep.
C1_FreshEntryServedWithoutTransport ==
    \A r \in rows0 :
        (pc # "idle" /\ Fresh(r.timestamp, now0)) =>
            /\ pc = "done"
            /\ outcome = "returned"
            /\ json_loads(r.response).ok
            /\ result = json_loads(r.response).value
            /\ requests = 0
            /\ sleeps = <<>>

\* C2: every call ends by returning a JSON payload or None; it never
\* raises.
C2_FetchNeverRaises ==
    pc = "done" => (outcome = "returned" /\ result \in JSONValues)

\* C3: an iteration whose response is a 200 with a body that is not JSON
\* ends the call with None, leaves the table as it is and is the last
\* request of the call.
C3_UnparseableBodyReturnsNone ==
    [][\A resp \in Responses :
         (Attempt(resp) /\ ~resp.exc /\ resp.status_code = 200
             /\ ~json_loads(resp.text).ok)
         => (pc' = "done" /\ outcome' = "returned" /\ result' = None
             /\ store' = store)]_vars

\* C4: a call whose key has a row that cannot be deserialised goes on to
\* the transport request, as on a miss, instead of failing on the row.
C4_CorruptEntryIsMiss ==
    \A r \in rows0 :
        (pc # "idle" /\ ~json_loads(r.response).ok) =>
            (pc = "request" \/ requests >= 1)

\* C5: one call invokes the transport at most MAX_RETRIES = 5 times.
C5_AtMostMaxAttempts ==
    requests <= MAX_RETRIES /\ Len(statuses) = requests

C5_Witness ==
    pc = "done" /\ requests = MAX_RETRIES

\* C6: a call that received five 429 responses in a row returns None and
\* leaves the table as it was.
C6_ExhaustionReturnsNone ==
    (/\ pc = "done"
     /\ Len(statuses) = MAX_RETRIES
     /\ \A i \in 1..Len(statuses) : statuses[i] = 429)
    => (outcome = "returned" /\ result = None /\ store = store0)

\* C7: a 404 response, at whatever attempt, is the last transport outcome
\* of its call: the call returns None, no row of the table is created or
\* changed, and no sleep or request follows it.
C7_NotFoundEndsCall ==
    \A i \in 1..Len(statuses) :
        statuses[i] = 404 =>
            /\ i = Len(statuses)
            /\ pc = "done"
            /\ outcome = "returned"
            /\ result = None
            /\ store = store0
            /\ requests = i
            /\ Len(sleeps) = i - 1

C7_Witness ==
    /\ pc = "done"
    /\ Len(statuses) >= 2
    /\ Last(statuses) = 404
    /\ store # {}

\* C8: a transport failure (recorded as status 0), also after earlier 429
\* responses, ends the call at once with None: no retry, no sleep and no
\* cache write follow it.
C8_TransportFailureEndsCall ==
    \A i \in 1..Len(statuses) :
        statuses[i] = 0 =>
            /\ i = Len(statuses)
            /\ pc = "done"
            /\ outcome = "returned"
            /\ result = None
            /\ store = store0
            /\ requests = i
            /\ Len(sleeps) = i - 1

C8_Witness ==
    /\ pc = "done"
    /\ Len(statuses) = 3
    /\ statuses[1] = 429
    /\ statuses[2] = 429
    /\ Last(statuses) = 0

\* C9: within one call, every transport outcome before the last one is a
\* 429, and while the call is still going to issue a request every outcome
\* so far is a 429.
C9_OnlyRateLimitRetried ==
    \A i \in 1..Len(statuses) :
        statuses[i] # 429 => (i = Len(statuses) /\ pc = "done")

C9_Witness ==
    /\ pc = "done"
    /\ Len(statuses) = 3
    /\ statuses[1] = 429
    /\ statuses[2] = 429
    /\ Last(statuses) = 200
    /\ outcome = "returned"

\* C10: when an earlier call for the same path ended on a 200 response
\* with payload p less than TTL before this call, this call returns p and
\* makes no transport call.
C10_SecondFetchWithinTTLServed ==
    (/\ pc # "idle"
     /\ prior.seen
     /\ now0 - prior.at < CACHE_TTL * TicksPerSec)
    => (/\ pc = "done"
        /\ outcome = "returned"
        /\ result = prior.data
        /\ requests = 0)

\* the running or last call ended on a 200 response whose body parsed,
\* that is, with set_cache(key0, result) as its last effect
Stored ==
    /\ pc = "done"
    /\ outcome = "returned"
    /\ statuses # <<>>
    /\ Last(statuses) = 200

\* C11: right after set_cache(k, p), get_cached(k) yields p again, whether
\* or not the table had a row for k before.
C11_PutGetRoundTrip ==
    Stored => get_cached(store, key0, now) = [raised |-> FALSE, value |-> result]

C11_Witness ==
    /\ Stored
    /\ rows0 # {}
    /\ result = ObjA
    /\ get_cached(store, key0, now).value = ObjA

\* the row set_cache wrote in the latest call for path p that ended on a
\* 200 response
RowOf(p) ==
    [key |-> BASE_URL \o p, response |-> json_dumps(lastOK[p].data),
     timestamp |-> lastOK[p].at \div TicksPerSec]

\* C12: with a row put at t0 holding p, a read at t0 + TTL - 1 yields p (and
\* the call returns it without a request, unless p is None) and a read at
\* t0 + TTL + 1 is a miss; reads leave the row as it was written, payload
\* p and stamp int(t0), until the next put for its key.
C12_LogicalTTLExpiry ==
    /\ \A p \in Paths :
          lastOK[p].seen => Select(store, BASE_URL \o p) = {RowOf(p)}
    /\ (pc # "idle" /\ prior.seen) =>
          LET read == get_cached(store0, key0, now0)
          IN  /\ now0 = prior.at + TicksPerSec * (CACHE_TTL - 1) =>
                    /\ read = [raised |-> FALSE, value |-> prior.data]
                    /\ prior.data # None =>
                          /\ pc = "done"
                          /\ outcome = "returned"
                          /\ result = prior.data
                          /\ requests = 0
              /\ now0 = prior.at + TicksPerSec * (CACHE_TTL + 1) =>
                    /\ read = [raised |-> FALSE, value |-> None]
                    /\ pc = "request" \/ requests >= 1

C12_Witness ==
    /\ pc = "done"
    /\ prior.seen
    /\ prior.data = ObjA
    /\ now0 = prior.at + TicksPerSec * (CACHE_TTL + 1)
    /\ Last(statuses) = 404
    /\ lastOK[path] = prior
    /\ Select(store, key0) = {RowOf(path)}

\* the rows of the keys other than the key of the running or last call
Others(st) == {r \in st : r.key # key0}

\* C13: the table changes only in a call that ends on a 200 response whose
\* body parsed, and there only in the row of the requested key; all other
\* calls (cache hit, 404, other status, transport failure, exhausted
\* 429s, and calls that raise) leave the whole table as it was.
C13_OnlySuccessWrites ==
    /\ Others(store) = Others(store0)
    /\ ~Stored => store = store0
    /\ Stored => Select(store, key0) = {RowOf(path)}

C13_Witness ==
    /\ Stored
    /\ rows0 # {}
    /\ Others(store0) # {}
    /\ store # store0

\* C14: when a call gets n 429 responses without a usable hint and then a
\* 200 response, n is at most 4, the sleeps were 1, 2, 4, 8 cut to n terms,
\* the transport was called n + 1 times, and the payload of the 200
\* response is returned and is the row of the key in the table.
C14_BackoffProgression ==
    [][\A resp \in PlainResponses :
         (Attempt(resp) /\ ~resp.exc /\ resp.status_code = 200
             /\ json_loads(resp.text).ok)
         => LET n == Len(statuses)
                p == json_loads(resp.text).value
            IN  /\ n <= 4
                /\ \A i \in 1..n : statuses[i] = 429
                /\ sleeps' = [i \in 1..n |-> Min(2 ^ (i - 1), BACKOFF_MAX)]
                /\ requests' = n + 1
                /\ pc' = "done"
                /\ outcome' = "returned"
                /\ result' = p
                /\ Select(store', key0) =
                      {[key |-> key0, response |-> json_dumps(p),
                        timestamp |-> now \div TicksPerSec]}]_vars

C14_Witness ==
    /\ Stored
    /\ sleeps = <<1, 2, 4, 8>>
    /\ requests = 5
    /\ result = ObjA
    /\ Select(store, key0) = {RowOf(path)}

\* C15: the k-th 429 of a call is followed by a sleep of its hint when it
\* carries a number, and of min(2^(k-1), 60) when it does not, whatever
\* the earlier 429s carried; the backoff is doubled after it either way.
C15_HintOverridesOneWait ==
    [][\A resp \in Responses :
         (Attempt(resp) /\ ~resp.exc /\ resp.status_code = 429
             /\ outcome' # "raised")
         => LET k == Len(statuses) + 1
                ra == HeadersGet(resp.headers, "Retry-After")
            IN  /\ Len(sleeps') = k
                /\ resp \in HintedResponses =>
                      sleeps'[k] = int(ra.value).value
                /\ resp \notin HintedResponses =>
                      sleeps'[k] = Min(2 ^ (k - 1), BACKOFF_MAX)
                /\ backoff' = Min(2 ^ k, BACKOFF_MAX)]_vars

C15_Witness ==
    /\ sleeps = <<3, 2>>
    /\ backoff = 4
    /\ pc = "request"

\* the total of the time.sleep arguments in seq
RECURSIVE Sum(_)
Sum(seq) == IF seq = <<>> THEN 0 ELSE seq[1] + Sum(Tail(seq))

\* C16: a call in which no 429 carries a numeric hint sleeps at most 4
\* times, for at most 1 + 2 + 4 + 8 = 15 seconds in all; the 429 that uses
\* up the last attempt is not followed by a sleep.
C16_AtMostFourWaits ==
    /\ Len(sleeps) <= MAX_RETRIES - 1
    /\ Sum(sleeps) <= 15

\* the keys that have a row in st
KeysIn(st) == {r.key : r \in st}

\* C17: the table never holds two rows for one key, and no step removes a
\* key from it: a put replaces the row of its key and leaves the rows of
\* all other keys as they are.
C17_OneRowPerKeyNoDelete ==
    /\ [](\A k \in KeysIn(store) : Cardinality(Select(store, k)) = 1)
    /\ [][/\ KeysIn(store) \subseteq KeysIn(store')
          /\ \A r \in store : r.key # BASE_URL \o path => r \in store'
          /\ Cardinality(store') >= Cardinality(store)]_vars

C17_Witness ==
    /\ Stored
    /\ rows0 # {}
    /\ Select(store, key0) # rows0
    /\ Cardinality(Select(store, key0)) = 1
    /\ Others(store) # {}

\* C18: a call that has entered the retry loop ends (by a return or by an
\* exception), whatever the transport answers, 429 for ever included.
C18_FetchTerminates ==
    (pc = "request") ~> (pc = "done")

C18_Witness ==
    /\ pc = "done"
    /\ Len(statuses) = MAX_RETRIES
    /\ \A i \in 1..Len(statuses) : statuses[i] = 429
    /\ outcome = "returned"

\* C19: the retry state belongs to the call: a call enters the loop with
\* attempt 1 and backoff 1 whatever earlier calls went through, so inside
\* the loop attempt is one more than the requests of this call, backoff is
\* 2 to the number of sleeps of this call, and its first sleep is 1.
C19_RetryStatePerCall ==
    /\ pc = "request" =>
          /\ attempt = requests + 1
          /\ attempt <= MAX_RETRIES + 1
          /\ backoff = Min(2 ^ Len(sleeps), BACKOFF_MAX)
    /\ (pc = "request" /\ requests = 0) =>
          (attempt = 1 /\ backoff = BACKOFF_INITIAL)
    /\ sleeps # <<>> => sleeps[1] = BACKOFF_INITIAL

\* a call in its loop after an earlier call that slept 1 and 2 seconds
\* before its 200 response
C19_Witness ==
    /\ pc = "request"
    /\ sleeps = <<1>>
    /\ attempt = 2
    /\ \E p \in Paths :
          /\ lastOK[p].seen
          /\ lastOK[p].at = Start + 3 * TicksPerSec
          /\ now0 > lastOK[p].at

\* C20: a call that finds a row of age >= TTL for its key goes to the
\* network; it returns a payload only when it ends on a 200 response, and
\* then that response's payload; when it ends otherwise (404, another
\* status, transport failure, attempts used up) it yields None and the
\* stale row is still in the table with its payload and stamp.
C20_StaleNeverServed ==
    \A r \in rows0 :
        (pc # "idle" /\ ~Fresh(r.timestamp, now0)) =>
            /\ pc = "request" \/ requests >= 1
            /\ (pc = "done" /\ ~Stored) => (result = None /\ r \in store)
            /\ Stored =>
                  /\ lastOK[path] = [seen |-> TRUE, data |-> result, at |-> now]
                  /\ Select(store, key0) = {RowOf(path)}

C20_Witness ==
    /\ pc = "done"
    /\ outcome = "returned"
    /\ result = None
    /\ Last(statuses) = 404
    /\ \E r \in rows0 :
          /\ ~Fresh(r.timestamp, now0)
          /\ json_loads(r.response) = [ok |-> TRUE, value |-> Arr12]
          /\ r \in store

====
